---- MODULE Spec2Model ----
(***************************************************************************)
(* Print capture pipeline of the printer repository: the device reader     *)
(* thread, the queue, and the two job segmenter loops                      *)
(* (scripts/capture_prints.py main and app.py capture_prints_job) with the *)
(* job store they write to.                                                *)
(*                                                                         *)
(* Time is counted in whole seconds.  queue.get(timeout=1.0) returns at    *)
(* once when an item is queued and raises queue.Empty exactly 1 second     *)
(* after the call otherwise; every handler of the loop runs in zero time,  *)
(* except save_buffer, whose store and extraction may take up to           *)
(* MaxSaveDur seconds.  The wall clock is monotonic, so the second of a    *)
(* file name is the clock reading.  The clock is followed from the first   *)
(* outcome of the reader on (before it both loops only poll an empty       *)
(* queue), while the segmenter loop runs, up to MaxTime.                   *)
(*                                                                         *)
(* The extraction that save_buffer launches on a stored file               *)
(* (scripts/extract_string.py) and the converters of utility/ are          *)
(* functions of the file's bytes.  They are specified a second time, by    *)
(* ExtractSpec: the file is any concatenation of up to MaxWords of the     *)
(* byte strings in Words, or one of LongInputs, and each function is       *)
(* called on it once.  Bytes and characters are their codes 0..255.        *)
(* In the capture pipeline only the way the extraction process ends is     *)
(* followed (script missing, not launched, nonzero exit, exit 0), and it   *)
(* is logged under SaveSpec only, which runs capture_prints.main alone.    *)
(*                                                                         *)
(* PairSpec runs the two segmenter loops side by side, as functions of     *)
(* their locals, on one sequence of dequeue events (a chunk, a poll that   *)
(* expired, EndOfStream, each with the clock reading), every write         *)
(* succeeding.                                                             *)
(***************************************************************************)
EXTENDS Integers, Sequences, FiniteSets, TLC

\* ---------------------------------------------------------------- bounds
MaxChunks == 2
MaxTime == 10
MaxSaveDur == 1
MaxWords == 2

\* ------------------------------------------------------ program constants
JOB_COMPLETION_TIMEOUT == 3
POLL_TIMEOUT == 1
HEADER_SIZE == 1024

VARIABLES
    impl,            \* which segmenter loop runs: "main" or "app"
    now,             \* time.time() / datetime.now(), in seconds
    rpc,             \* reader_thread position: "open", "read", "done"
    readLog,         \* history: outcome of every dev.read (and a failed open)
    queue,           \* data_queue
    putLog,          \* history: every item q.put was called with
    deqLog,          \* history: every item data_queue.get returned
    spc,             \* segmenter position: "get", "saving", "done", "dead"
    buffer,          \* the local bytearray
    last_data_time,  \* the local timestamp, 0 for None
    pollStart,       \* when the pending data_queue.get was called
    saveCtx,         \* call site of the running save_buffer
    saveStart,       \* when the running save_buffer was entered
    flushLog,        \* history: every buffer save_buffer went on to write
    files,           \* the prints directory: second of the name -> content
    interrupted,     \* history: a KeyboardInterrupt was delivered
    file,            \* the bytes of the .bin file given to the extraction
    fn,              \* the extraction function that was called
    xpc,             \* its position: "idle", "detected", "returned", "raised"
    calls,           \* history: the functions process_file has called
    fmt,             \* process_file's local file_format
    reads,           \* history: whether each open-and-read of the file worked
    ret,             \* the value the function returned
    mainSeg,         \* capture_prints.main run on the common feed
    appSeg,          \* app.capture_prints_job run on the common feed
    feed,            \* the dequeue events fed to both: clock, chunks so far
    watch            \* whether the way each extraction ends is logged

\* the capture pipeline's variables, and the extraction's
cvars == <<impl, now, rpc, readLog, queue, putLog, deqLog, spc, buffer,
           last_data_time, pollStart, saveCtx, saveStart, flushLog, files,
           interrupted>>

xvars == <<file, fn, xpc, calls, fmt, reads, ret>>

\* the two loops run side by side on one sequence of dequeue events
pvars == <<mainSeg, appSeg, feed>>

vars == <<cvars, xvars, pvars, watch>>

\* ------------------------------------------------------------- data
\* queue items; "at" is the time of the q.put, which no code reads
Chunk(d, t) == [kind |-> "chunk", data |-> d, at |-> t]
EndOfStream(t) == [kind |-> "eos", data |-> <<>>, at |-> t]

RECURSIVE Concat(_)
Concat(ss) == IF ss = <<>> THEN <<>> ELSE Head(ss) \o Concat(Tail(ss))

SelectKind(log, k) == SelectSeq(log, LAMBDA e : e.kind = k)
DataOf(log) == [i \in 1..Len(log) |-> log[i].data]

\* bool(x) of a bytes / bytearray value
TruthyAlways(b) == TRUE
Truthy(b) == Len(b) > 0

\* bool(x) of a float-or-None timestamp (None is 0)
TimeSet(t) == t # 0

\* ------------------------------------------------------------- reader
ReaderLive == ~(impl = "main" /\ spc \in {"done", "dead"})

ReaderOpen ==
    /\ UNCHANGED <<xvars, pvars, watch>>
    /\ rpc = "open"
    /\ ReaderLive
    /\ rpc' = "read"
    /\ UNCHANGED <<impl, now, readLog, queue, putLog, deqLog, spc, buffer,
                   last_data_time, pollStart, saveCtx, saveStart, flushLog,
                   files, interrupted>>

NextData == <<Len(SelectKind(readLog, "chunk")) + 1>>

ReaderChunk ==
    /\ UNCHANGED <<xvars, pvars, watch>>
    /\ rpc = "read"
    /\ ReaderLive
    /\ Len(SelectKind(readLog, "chunk")) < MaxChunks
    /\ LET data == NextData IN
         /\ readLog' = Append(readLog, [kind |-> "chunk", data |-> data, at |-> now])
         /\ queue' = Append(queue, Chunk(data, now))
         /\ putLog' = Append(putLog, Chunk(data, now))
    /\ UNCHANGED <<impl, now, rpc, deqLog, spc, buffer, last_data_time,
                   pollStart, saveCtx, saveStart, flushLog, files, interrupted>>

ReaderFinishAndGoOn(kind) ==
    /\ readLog' = Append(readLog, [kind |-> kind, data |-> <<>>, at |-> now])
    /\ queue' = Append(queue, EndOfStream(now))
    /\ putLog' = Append(putLog, EndOfStream(now))
    /\ rpc' = "read"

ReaderFinish(kind) ==
    /\ readLog' = Append(readLog, [kind |-> kind, data |-> <<>>, at |-> now])
    /\ queue' = Append(queue, EndOfStream(now))
    /\ putLog' = Append(putLog, EndOfStream(now))
    /\ rpc' = "done"

ReaderRetry(kind) ==
    /\ readLog' = Append(readLog, [kind |-> kind, data |-> <<>>, at |-> now])
    /\ UNCHANGED <<queue, putLog, rpc>>

ReaderSwallow(kind) ==
    /\ readLog' = Append(readLog, [kind |-> kind, data |-> <<>>, at |-> now])
    /\ rpc' = "done"
    /\ UNCHANGED <<queue, putLog>>

OnZeroReadRetry == ReaderRetry("eof")

\* if not data: break, then the finally clause
OnZeroRead == ReaderFinish("eof")

OnIOErrorSwallow == ReaderSwallow("error")

\* except Exception, then the finally clause
OnIOError == ReaderFinish("error")

ReaderEOF ==
    /\ UNCHANGED <<xvars, pvars, watch>>
    /\ rpc = "read"
    /\ ReaderLive
    /\ OnZeroRead
    /\ UNCHANGED <<impl, now, deqLog, spc, buffer, last_data_time, pollStart,
                   saveCtx, saveStart, flushLog, files, interrupted>>

ReaderError ==
    /\ UNCHANGED <<xvars, pvars, watch>>
    /\ rpc \in {"open", "read"}
    /\ ReaderLive
    /\ OnIOError
    /\ UNCHANGED <<impl, now, deqLog, spc, buffer, last_data_time, pollStart,
                   saveCtx, saveStart, flushLog, files, interrupted>>

\* ------------------------------------------------------------- job store
\* open(filename, "wb") and f.write(buffer): n bytes reach the file; n < 0 is
\* a failed open (file untouched), n = Len(b) a complete write
StoreWriteAppend(fs, sec, b, n) ==
    IF n < 0 THEN fs
    ELSE [s \in DOMAIN fs \cup {sec} |->
            IF s = sec
            THEN (IF s \in DOMAIN fs THEN fs[s] ELSE <<>>) \o SubSeq(b, 1, n)
            ELSE fs[s]]

StoreWrite(fs, sec, b, n) ==
    IF n < 0 THEN fs
    ELSE [s \in DOMAIN fs \cup {sec} |-> IF s = sec THEN SubSeq(b, 1, n) ELSE fs[s]]

WriteOk(b, n) == n = Len(b)

\* what a write of b can achieve: the open fails, the write fails short of
\* the last byte, or the write completes
WriteOutcomes(b) == {-1, Len(b) - 1, Len(b)}

\* ------------------------------------------------------------- segmenter
LeaveFrame(to) ==
    /\ spc' = to
    /\ buffer' = <<>>
    /\ last_data_time' = 0
    /\ UNCHANGED <<pollStart, saveCtx, saveStart>>

\* how the extraction that save_buffer runs on the stored file can end: the
\* script is not there, Popen raises, the process exits nonzero, or it exits
\* with 0; a write that raised skips it, and app.py has none
ExtractOutcomes(b, n) ==
    IF impl = "app" THEN {"none"}
    ELSE IF ~WriteOk(b, n) THEN {"skipped"}
    ELSE {"missing", "launch", "nonzero", "ok"}

ExtractFailures == {"missing", "launch", "nonzero"}

\* what save_buffer reports of the extraction: an [ERROR] line for each of
\* the three failures; logged as such only where the extraction is watched
ExtractResult(x) ==
    IF x \in {"none", "skipped"} THEN x
    ELSE IF ~watch THEN "ran"
    ELSE IF x \in ExtractFailures THEN "failed" ELSE x

\* whether an exception leaves save_buffer: main's catches every Exception
\* of the write and of the extraction, app's has no handler at all
SaveRaisesOnLaunchFailure(b, n, x) == (impl = "app" /\ ~WriteOk(b, n)) \/ x = "launch"

SaveRaises(b, n, x) == impl = "app" /\ ~WriteOk(b, n)

\* save_buffer entered from call site ctx; n is what the write achieves, x
\* how the extraction ends (extract: what is reported of it); again: the
\* same buffer was handed to save_buffer before; end: when the call
\* returned, 0 until it does
SaveBufferAs(ctx, n, x, again) ==
    /\ flushLog' = Append(flushLog, [cause |-> ctx, bytes |-> buffer,
                                     sec |-> now, n |-> n,
                                     extract |-> ExtractResult(x),
                                     again |-> again, end |-> 0])
    /\ files' = StoreWrite(files, now, buffer, n)
    /\ IF SaveRaises(buffer, n, x)
       THEN LeaveFrame("dead")
       ELSE /\ spc' = "saving"
            /\ saveCtx' = ctx
            /\ saveStart' = now
            /\ UNCHANGED <<buffer, last_data_time, pollStart>>

SaveBuffer(ctx, n, again) ==
    IF Truthy(buffer)
    THEN \E x \in ExtractOutcomes(buffer, n) : SaveBufferAs(ctx, n, x, again)
    ELSE /\ spc' = "saving"
         /\ saveCtx' = ctx
         /\ saveStart' = now
         /\ UNCHANGED <<flushLog, files, buffer, last_data_time, pollStart>>

\* buffer.extend(data)
ExtendReplace(b, data) == data
Extend(b, data) == b \o data

SegGetChunkDuringSave ==
    /\ UNCHANGED <<xvars, pvars, watch>>
    /\ spc \in {"get", "saving"}
    /\ queue # <<>>
    /\ Head(queue).kind = "chunk"
    /\ queue' = Tail(queue)
    /\ deqLog' = Append(deqLog, [item |-> Head(queue), at |-> now])
    /\ buffer' = Extend(buffer, Head(queue).data)
    /\ last_data_time' = now
    /\ pollStart' = now
    /\ UNCHANGED <<impl, now, rpc, readLog, putLog, spc, saveCtx, saveStart,
                   flushLog, files, interrupted>>

SegGetChunk ==
    /\ UNCHANGED <<xvars, pvars, watch>>
    /\ spc = "get"
    /\ queue # <<>>
    /\ Head(queue).kind = "chunk"
    /\ queue' = Tail(queue)
    /\ deqLog' = Append(deqLog, [item |-> Head(queue), at |-> now])
    /\ buffer' = Extend(buffer, Head(queue).data)
    /\ last_data_time' = now
    /\ pollStart' = now
    /\ UNCHANGED <<impl, now, rpc, readLog, putLog, spc, saveCtx, saveStart,
                   flushLog, files, interrupted>>

EosFlushIfTimedOut == Truthy(buffer) /\ now - last_data_time > JOB_COMPLETION_TIMEOUT

EosFlush == Truthy(buffer)

SegGetEOS ==
    /\ UNCHANGED <<xvars, pvars, watch>>
    /\ spc = "get"
    /\ queue # <<>>
    /\ Head(queue).kind = "eos"
    /\ queue' = Tail(queue)
    /\ deqLog' = Append(deqLog, [item |-> Head(queue), at |-> now])
    /\ IF EosFlush
       THEN \E n \in WriteOutcomes(buffer) : SaveBuffer("eos", n, FALSE)
       ELSE LeaveFrame("done") /\ UNCHANGED <<flushLog, files>>
    /\ UNCHANGED <<impl, now, rpc, readLog, putLog, interrupted>>

\* time.time() - last_data_time > JOB_COMPLETION_TIMEOUT
TimedOutEarly(t) == now - t > POLL_TIMEOUT

TimedOutLate(t) == now - t > JOB_COMPLETION_TIMEOUT + 1

TimedOutAtEqual(t) == now - t >= JOB_COMPLETION_TIMEOUT

TimedOut(t) == now - t > JOB_COMPLETION_TIMEOUT

TimeoutCondMain == Truthy(buffer) /\ TimeSet(last_data_time) /\ TimedOut(last_data_time)

TimeoutCondApp == TimeSet(last_data_time) /\ TimedOut(last_data_time)

TimeoutCond == IF impl = "main" THEN TimeoutCondMain ELSE TimeoutCondApp

SegEmpty ==
    /\ UNCHANGED <<xvars, pvars, watch>>
    /\ spc = "get"
    /\ queue = <<>>
    /\ now >= pollStart + POLL_TIMEOUT
    /\ IF TimeoutCond
       THEN \E n \in WriteOutcomes(buffer) : SaveBuffer("timeout", n, FALSE)
       ELSE /\ pollStart' = now
            /\ UNCHANGED <<spc, buffer, last_data_time, saveCtx, saveStart,
                           flushLog, files>>
    /\ UNCHANGED <<impl, now, rpc, readLog, queue, putLog, deqLog, interrupted>>

\* the reset after a flush: buffer = bytearray(); last_data_time = None
\* (main), buffer.clear(); last_data_time = None (app)
AfterFlushKeepBuffer ==
    /\ buffer' = buffer
    /\ last_data_time' = 0

AfterFlush ==
    /\ buffer' = <<>>
    /\ last_data_time' = 0

\* save_buffer returns to its call site
SaveEnd ==
    /\ UNCHANGED <<xvars, pvars, watch>>
    /\ spc = "saving"
    /\ IF saveCtx = "timeout"
       THEN /\ spc' = "get"
            /\ AfterFlush
            /\ pollStart' = now
            /\ UNCHANGED <<saveCtx, saveStart>>
       ELSE LeaveFrame("done")
    /\ flushLog' = IF flushLog = <<>> THEN flushLog
                   ELSE [flushLog EXCEPT ![Len(flushLog)].end = now]
    /\ UNCHANGED <<impl, now, rpc, readLog, queue, putLog, deqLog, files,
                   interrupted>>

\* KeyboardInterrupt, delivered to the main thread of capture_prints.py
Interrupt ==
    /\ UNCHANGED <<xvars, pvars, watch>>
    /\ impl = "main"
    /\ spc \in {"get", "saving"}
    /\ interrupted' = TRUE
    /\ IF spc = "get"
       THEN IF Truthy(buffer)
            THEN \E n \in WriteOutcomes(buffer) : SaveBuffer("interrupt", n, FALSE)
            ELSE LeaveFrame("done") /\ UNCHANGED <<flushLog, files>>
       ELSE IF saveCtx = "eos"
            THEN IF Truthy(buffer)
                 THEN \E n \in WriteOutcomes(buffer) : SaveBuffer("interrupt", n, TRUE)
                 ELSE LeaveFrame("done") /\ UNCHANGED <<flushLog, files>>
            ELSE LeaveFrame("dead") /\ UNCHANGED <<flushLog, files>>
    /\ UNCHANGED <<impl, now, rpc, readLog, queue, putLog, deqLog>>

\* ------------------------------------------------------------- time
Tick ==
    /\ UNCHANGED <<xvars, pvars, watch>>
    /\ now < MaxTime
    /\ spc \in {"get", "saving"}
    /\ rpc # "open"
    /\ readLog # <<>>
    /\ spc = "get" => queue = <<>> /\ now < pollStart + POLL_TIMEOUT
    /\ spc = "saving" => now - saveStart < MaxSaveDur
    /\ now' = now + 1
    /\ UNCHANGED <<impl, rpc, readLog, queue, putLog, deqLog, spc, buffer,
                   last_data_time, pollStart, saveCtx, saveStart, flushLog,
                   files, interrupted>>

\* ------------------------------------------------------------- system
\* no value returned yet
NoReturn == [kind |-> "none", tag |-> "", chars |-> <<>>]

\* the extraction before any function is called on the file f
ExtractIdle(f) ==
    /\ file = f
    /\ fn = "none"
    /\ xpc = "idle"
    /\ calls = <<>>
    /\ fmt = ""
    /\ reads = <<>>
    /\ ret = NoReturn

CaptureInit(impls) ==
    /\ impl \in impls
    /\ now = 1
    /\ rpc = "open"
    /\ readLog = <<>>
    /\ queue = <<>>
    /\ putLog = <<>>
    /\ deqLog = <<>>
    /\ spc = "get"
    /\ buffer = <<>>
    /\ last_data_time = 0
    /\ pollStart = 1
    /\ saveCtx = "none"
    /\ saveStart = 0
    /\ flushLog = <<>>
    /\ files = <<>>
    /\ interrupted = FALSE

\* a loop's locals before its first data_queue.get; handed: the buffers it
\* has given to the Job Store
SegStart == [buffer |-> <<>>, last_data_time |-> 0, pc |-> "loop", handed |-> <<>>]

\* both loops started, nothing dequeued yet; polled: when the pending
\* data_queue.get was called
FeedIdle ==
    /\ mainSeg = SegStart
    /\ appSeg = SegStart
    /\ feed = [clock |-> 1, polled |-> 1, chunks |-> 0]

Init ==
    /\ CaptureInit({"main", "app"})
    /\ ExtractIdle(<<>>)
    /\ FeedIdle
    /\ watch = FALSE

Next ==
    \/ ReaderOpen
    \/ ReaderChunk
    \/ ReaderEOF
    \/ ReaderError
    \/ SegGetChunk
    \/ SegGetEOS
    \/ SegEmpty
    \/ SaveEnd
    \/ Interrupt
    \/ Tick

Spec == Init /\ [][Next]_vars

\* capture_prints.main with the result of every extraction logged
SaveInit ==
    /\ CaptureInit({"main"})
    /\ ExtractIdle(<<>>)
    /\ FeedIdle
    /\ watch = TRUE

SaveSpec == SaveInit /\ [][Next]_vars

\* ------------------------------------------------------------- observations
Last(q) == q[Len(q)]

IsPrefix(p, q) == Len(p) <= Len(q) /\ SubSeq(q, 1, Len(p)) = p

\* the chunks read from the device, and their bytes
Chunks == SelectKind(readLog, "chunk")
DevRead == Concat(DataOf(Chunks))
Gap(i) == Chunks[i + 1].at - Chunks[i].at
LastArrival == Last(Chunks).at

\* the Jobs handed to the Job Store, in flush order: a buffer that
\* save_buffer is given a second time is the same Job
Jobs == DataOf([i \in 1..Len(SelectSeq(flushLog, LAMBDA f : ~f.again)) |->
                 [data |-> SelectSeq(flushLog, LAMBDA f : ~f.again)[i].bytes]])

\* the buffer not yet handed to save_buffer
ActiveBuffer == IF spc = "saving" THEN <<>> ELSE buffer

\* the segmenter has nothing left to do with what was read
SegQuiet == spc = "done" \/ (spc = "get" /\ queue = <<>> /\ buffer = <<>>)

BurstUpTo(k) == Concat(DataOf(SubSeq(Chunks, 1, k)))
BurstAfter(k) == Concat(DataOf(SubSeq(Chunks, k + 1, Len(Chunks))))

\* ------------------------------------------------------------- C1
\* C1: chunks whose gaps are all strictly less than the inactivity timeout,
\* followed by silence or EndOfStream, make exactly one Job, the
\* concatenation of all chunks in arrival order; no Job is cut before.
GapsShort == \A i \in 1..(Len(Chunks) - 1) : Gap(i) < JOB_COMPLETION_TIMEOUT

C1_OneJobPerBurst ==
    (Chunks # <<>> /\ GapsShort /\ ~interrupted) =>
        /\ Jobs = <<>> \/ Jobs = <<DevRead>>
        /\ SegQuiet => Jobs = <<DevRead>>
        /\ now - LastArrival > POLL_TIMEOUT + JOB_COMPLETION_TIMEOUT => Jobs = <<DevRead>>

C1_Witness ==
    /\ Len(Chunks) = 2
    /\ GapsShort
    /\ Gap(1) = 2
    /\ ~interrupted
    /\ Len(flushLog) = 1
    /\ flushLog[1].cause = "timeout"
    /\ Jobs = <<DevRead>>
    /\ spc = "get"

\* ------------------------------------------------------------- C2
\* two bursts: one gap above thr, every other gap below the timeout
TwoBursts(k, thr) ==
    /\ Gap(k) > thr
    /\ \A i \in 1..(Len(Chunks) - 1) : i # k => Gap(i) < JOB_COMPLETION_TIMEOUT

TwoJobs(thr) ==
    \A k \in 1..(Len(Chunks) - 1) :
        (TwoBursts(k, thr) /\ ~interrupted) =>
            /\ IsPrefix(Jobs, <<BurstUpTo(k), BurstAfter(k)>>)
            /\ SegQuiet => Jobs = <<BurstUpTo(k), BurstAfter(k)>>

EosDequeue ==
    /\ spc = "get"
    /\ queue # <<>>
    /\ Head(queue).kind = "eos"
    /\ deqLog' # deqLog

EosSeen == deqLog # <<>> /\ Last(deqLog).item.kind = "eos"

EosFlushes == {i \in 1..Len(flushLog) : flushLog[i].cause = "eos"}

C3_EosStep ==
    EosDequeue =>
        IF buffer # <<>>
        THEN /\ Len(flushLog') = Len(flushLog) + 1
             /\ SubSeq(flushLog', 1, Len(flushLog)) = flushLog
             /\ Last(flushLog').cause = "eos"
             /\ Last(flushLog').bytes = buffer
             /\ Last(flushLog').sec = now
             /\ spc' \in {"saving", "dead"}
        ELSE /\ flushLog' = flushLog
             /\ files' = files
             /\ spc' = "done"

C3_AfterEos ==
    EosSeen =>
        /\ spc \in {"saving", "done", "dead"}
        /\ spc = "saving" => saveCtx \in {"eos", "interrupt"}
        /\ Cardinality(EosFlushes) <= 1
        /\ queue = <<>>

\* C3: the step that dequeues EndOfStream hands a non-empty buffer to the
\* Job Store at once, whatever time has passed since the last chunk, and
\* hands nothing when the buffer is empty; the EndOfStream handler flushes
\* at most once, and after EndOfStream nothing more is dequeued and the loop
\* is on its way out.
C3_EosFlushesOnceAndStops ==
    /\ [][C3_EosStep]_vars
    /\ [](C3_AfterEos)
    /\ [][EosSeen => deqLog' = deqLog]_vars

C3_Witness ==
    /\ EosSeen
    /\ spc = "done"
    /\ Len(flushLog) = 1
    /\ flushLog[1].cause = "eos"
    /\ Len(flushLog[1].bytes) = 2
    /\ Last(deqLog).at - deqLog[Len(deqLog) - 1].at = 1

\* ------------------------------------------------------------- C4
C4_Flushes ==
    /\ \A i \in 1..Len(flushLog) : flushLog[i].bytes # <<>>
    /\ \A s \in DOMAIN files : \E i \in 1..Len(flushLog) : flushLog[i].sec = s
    /\ \A i \in 1..Len(flushLog) : flushLog[i].cause \in {"timeout", "eos", "interrupt"}

C4_IdleStep ==
    (spc = "get" /\ buffer = <<>> /\ queue = <<>>) =>
        flushLog' = flushLog /\ files' = files

\* C4: every buffer handed to the Job Store, by timeout, by EndOfStream or
\* by interrupt, is non-empty, every file comes from such a flush, and no
\* step taken while Idle with nothing queued (a timed-out poll included)
\* flushes or writes anything.
C4_NeverFlushedEmpty ==
    /\ [](C4_Flushes)
    /\ [][C4_IdleStep]_vars

C4_Witness ==
    /\ spc = "get"
    /\ buffer = <<>>
    /\ Len(flushLog) = 1
    /\ flushLog[1].cause = "timeout"
    /\ pollStart = now
    /\ now >= flushLog[1].sec + 2
    /\ DOMAIN files = {flushLog[1].sec}

\* ------------------------------------------------------------- C5
ItemsOf(log) == [i \in 1..Len(log) |-> log[i].item]

\* C5: what was put is what was dequeued followed by what is queued (FIFO,
\* nothing dropped, nothing twice), every byte read was put, and the bytes
\* read are the Jobs handed to the Job Store, then the active buffer, then
\* the queued chunks.
C5_Conservation ==
    /\ putLog = ItemsOf(deqLog) \o queue
    /\ DevRead = Concat(DataOf(putLog))
    /\ DevRead = Concat(Jobs) \o ActiveBuffer \o Concat(DataOf(queue))

C5_Witness ==
    /\ Len(Jobs) = 2
    /\ \E i \in 1..Len(deqLog) : deqLog[i].at > deqLog[i].item.at
    /\ Len(deqLog) = 2
    /\ queue # <<>>
    /\ spc = "saving"

\* ------------------------------------------------------------- C6
EosPuts == {i \in 1..Len(putLog) : putLog[i].kind = "eos"}

ReaderStopped(i) ==
    /\ i = Len(readLog)
    /\ rpc = "done"
    /\ EosPuts = {Len(putLog)}
    /\ Last(putLog).at = readLog[i].at

\* C6: a zero-length read is the reader's last read: EndOfStream is put at
\* once, as the last item ever put, and the reader has stopped.
C6_ZeroReadEndsReader ==
    \A i \in 1..Len(readLog) : readLog[i].kind = "eof" => ReaderStopped(i)

C6_Witness ==
    /\ Len(readLog) = 3
    /\ readLog[3].kind = "eof"
    /\ now > readLog[3].at
    /\ spc = "done"
    /\ impl = "app"

C7_WitnessOpen ==
    /\ Len(readLog) = 1
    /\ readLog[1].kind = "error"
    /\ spc = "done"

\* ------------------------------------------------------------- C8
FailedFlush(i) == ~WriteOk(flushLog[i].bytes, flushLog[i].n)

\* C8 (as claimed): a failed write in a timeout flush is absorbed by both
\* loops: the loop goes on, the failed Job's bytes are gone from the buffer,
\* and no later Job holds them.
C8_WriteFailureAbsorbed ==
    \A i \in 1..Len(flushLog) :
        (flushLog[i].cause = "timeout" /\ FailedFlush(i) /\ ~interrupted) =>
            /\ spc # "dead"
            /\ \A j \in (i + 1)..Len(flushLog) :
                 \A a \in 1..Len(flushLog[i].bytes), b \in 1..Len(flushLog[j].bytes) :
                     flushLog[i].bytes[a] # flushLog[j].bytes[b]

\* the part of C8 that holds: in capture_prints.main the failure is absorbed
C8_MainAbsorbs == impl = "main" => C8_WriteFailureAbsorbed

C8_MainWitness ==
    /\ impl = "main"
    /\ Len(flushLog) = 2
    /\ flushLog[1].cause = "timeout"
    /\ FailedFlush(1)
    /\ ~FailedFlush(2)
    /\ flushLog[2].cause = "timeout"
    /\ ~interrupted

\* ------------------------------------------------------------- C9
FlushSeconds == {flushLog[i].sec : i \in 1..Len(flushLog)}

\* the most recent flush whose file name carries second s
LastFlushIn(s) ==
    CHOOSE i \in 1..Len(flushLog) :
        /\ flushLog[i].sec = s
        /\ \A j \in 1..Len(flushLog) : flushLog[j].sec = s => j <= i

Latency == POLL_TIMEOUT + JOB_COMPLETION_TIMEOUT

JobWaiting == spc = "get" /\ Truthy(buffer)

BusyFromTo(a, d) ==
    \E i \in 1..Len(flushLog) :
        /\ flushLog[i].sec <= a
        /\ flushLog[i].end = 0 \/ d <= flushLog[i].end

InFlushUpTo(d, i) ==
    \E j \in 1..i : \E p \in 1..Len(flushLog[j].bytes) : flushLog[j].bytes[p] = d

\* when the first chunk of the buffer of flush i arrived at the reader
FirstArrival(i) ==
    LET d == flushLog[i].bytes[1]
        k == CHOOSE k \in 1..Len(Chunks) : Chunks[k].data = <<d>>
    IN  Chunks[k].at

\* save_buffer was left by a KeyboardInterrupt, not by its return
Aborted(i) == flushLog[i].end = 0 /\ (i < Len(flushLog) \/ spc # "saving")

\* C11: Jobs are processed one at a time and in arrival order: a chunk that
\* belongs to a later Job is dequeued only after the store and extraction
\* of every earlier Job have returned, a save_buffer is entered only after
\* the previous one was left, and the Jobs are stored in the order in which
\* their first chunks arrived.
C11_OneJobAtATimeInArrivalOrder ==
    /\ \A i \in 1..Len(flushLog) : \A k \in 1..Len(deqLog) :
         (deqLog[k].item.kind = "chunk"
            /\ ~InFlushUpTo(deqLog[k].item.data[1], i)) =>
                /\ flushLog[i].end # 0
                /\ flushLog[i].end <= deqLog[k].at
    /\ \A i \in 1..Len(flushLog) : \A j \in (i + 1)..Len(flushLog) :
         /\ flushLog[i].sec <= flushLog[j].sec
         /\ flushLog[i].end # 0 => flushLog[i].end <= flushLog[j].sec
         /\ flushLog[i].end = 0 => j = i + 1 /\ flushLog[j].again
         /\ ~flushLog[j].again =>
              /\ flushLog[i].bytes[1] < flushLog[j].bytes[1]
              /\ FirstArrival(i) <= FirstArrival(j)

\* two Jobs were stored, the second one's chunk having arrived while the
\* first was being stored
C11_Witness ==
    /\ Len(flushLog) = 2
    /\ ~flushLog[2].again
    /\ flushLog[1].end # 0
    /\ flushLog[2].end # 0
    /\ FirstArrival(2) < flushLog[1].end
    /\ FirstArrival(1) < FirstArrival(2)

\* ============================================================ extraction
\* ------------------------------------------------------------- inputs
PS_MAGIC == <<37, 33, 80, 83>>          \* b'%!PS'
ESC_BYTE == <<27>>                      \* b'\x1b'

\* the byte strings the files are made of
Words ==
    { PS_MAGIC, ESC_BYTE,
      <<64>>,                           \* @
      <<10>>, <<13>>, <<32>>,           \* \n \r space
      <<233>>,                          \* 0xE9
      <<97, 98>>,                       \* ab
      <<84, 74>>,                       \* TJ
      <<40, 97, 98, 41>>,               \* (ab)
      <<40, 97, 98, 99, 100, 41>>,      \* (abcd)
      <<40>>, <<41>>, <<92>> }          \* ( ) \

ShortInputs ==
    {Concat(ws) : ws \in UNION {[1..k -> Words] : k \in 0..MaxWords}}

\* files around the size of the header that detect_format reads
Fill(n) == [i \in 1..n |-> 97]
PadLens == {HEADER_SIZE - 4, HEADER_SIZE - 3, HEADER_SIZE - 1, HEADER_SIZE}
Markers == {<<>>, PS_MAGIC, ESC_BYTE}
LongInputs == {Fill(n) \o m1 \o m2 : n \in PadLens, m1 \in Markers, m2 \in Markers}

Inputs == ShortInputs \cup LongInputs

\* ------------------------------------------------------------- values
\* a returned str is the text of a file (chars) or one of the fixed
\* messages of the code (tag)
Format(t) == [kind |-> "format", tag |-> t, chars |-> <<>>]
Text(cs) == [kind |-> "text", tag |-> "", chars |-> cs]
Message(m) == [kind |-> "message", tag |-> m, chars |-> <<>>]

\* ------------------------------------------------------------- detect_format
Min(a, b) == IF a < b THEN a ELSE b

\* f.read(n)
Read(f, n) == SubSeq(f, 1, Min(n, Len(f)))

\* h.startswith(pat), pat in h
StartsWith(h, pat) == Len(pat) <= Len(h) /\ SubSeq(h, 1, Len(pat)) = pat
OccursAt(h, pat, i) ==
    /\ i + Len(pat) - 1 <= Len(h)
    /\ \A k \in 1..Len(pat) : h[i + k - 1] = pat[k]
Contains(h, pat) == \E i \in 1..Len(h) : OccursAt(h, pat, i)

DetectFormatEscFirst(f, ok) ==
    IF ~ok THEN "rawtext"
    ELSE LET header == Read(f, HEADER_SIZE) IN
         IF Contains(header, ESC_BYTE) THEN "escpos"
         ELSE IF StartsWith(header, PS_MAGIC) \/ Contains(header, PS_MAGIC)
              THEN "postscript"
              ELSE "rawtext"

\* ok: open and read raised nothing
DetectFormat(f, ok) ==
    IF ~ok THEN "rawtext"
    ELSE LET header == Read(f, HEADER_SIZE) IN
         IF StartsWith(header, PS_MAGIC) \/ Contains(header, PS_MAGIC)
         THEN "postscript"
         ELSE IF Contains(header, ESC_BYTE) THEN "escpos"
              ELSE "rawtext"

\* a function of the file is called, opens and reads the file with the
\* outcomes rd, and returns v
Returns(name, rd, v) ==
    /\ xpc = "idle"
    /\ fn' = name
    /\ reads' = reads \o rd
    /\ ret' = v
    /\ xpc' = "returned"
    /\ UNCHANGED <<file, calls, fmt>>
    /\ UNCHANGED <<cvars, pvars, watch>>

CallDetectFormat ==
    \E ok \in BOOLEAN :
        Returns("detect_format", <<ok>>, Format(DetectFormat(file, ok)))

\* ------------------------------------------------------------- str
\* bytes.decode('latin-1'): byte b is the character with code b
Latin1(bs) == bs

SetMin(S) == CHOOSE i \in S : \A j \in S : i <= j
SetMax(S) == CHOOSE i \in S : \A j \in S : j <= i
MinOr(S, none) == IF S = {} THEN none ELSE SetMin(S)

\* s.find(pat, pos), 0 for not found
Find(s, pat, pos) == MinOr({i \in pos..Len(s) : OccursAt(s, pat, i)}, 0)

\* s[pos:].replace(pat, new): the occurrences of pat from the left, none
\* overlapping the one before; i is where the next one is found
RECURSIVE ReplaceFrom(_, _, _, _)
ReplaceFound(s, pat, new, pos, i) ==
    IF i = 0 THEN SubSeq(s, pos, Len(s))
    ELSE SubSeq(s, pos, i - 1) \o new \o ReplaceFrom(s, pat, new, i + Len(pat))

ReplaceFrom(s, pat, new, pos) == ReplaceFound(s, pat, new, pos, Find(s, pat, pos))

Replace(s, pat, new) == ReplaceFrom(s, pat, new, 1)

\* for code in codes: s = s.replace(code.pat, code.new)
RECURSIVE ReplaceAll(_, _)
ReplaceAll(s, codes) ==
    IF codes = <<>> THEN s
    ELSE ReplaceAll(Replace(s, Head(codes).pat, Head(codes).new), Tail(codes))

\* str.isspace() of a character below 256; also \s of re
IsSpace(c) == c \in (9..13) \cup (28..32) \cup {133, 160}

\* s.strip(); S is where s holds something else than space
StripTo(s, S) == IF S = {} THEN <<>> ELSE SubSeq(s, SetMin(S), SetMax(S))
Strip(s) == StripTo(s, {i \in 1..Len(s) : ~IsSpace(s[i])})

\* [\x20-\x7E\n\t]
Printable(c) == c \in 32..126 \/ c \in {9, 10}

\* re.sub(r'[^\x20-\x7E\n\t]', '', s)
KeepPrintable(s) == SelectSeq(s, Printable)

\* the concatenation of g[lo], ..., g[hi]
RECURSIVE Flat(_, _, _)
Flat(g, lo, hi) ==
    IF lo > hi THEN <<>>
    ELSE IF lo = hi THEN g[lo]
    ELSE Flat(g, lo, (lo + hi) \div 2) \o Flat(g, (lo + hi) \div 2 + 1, hi)

\* sep.join(parts)
RECURSIVE Join(_, _)
Join(parts, sep) ==
    IF parts = <<>> THEN <<>>
    ELSE IF Len(parts) = 1 THEN Head(parts)
    ELSE Head(parts) \o sep \o Join(Tail(parts), sep)

\* '\n'.join(parts) if parts else msg
JoinedOr(parts, msg) ==
    IF parts # <<>> THEN Text(Join(parts, <<10>>)) ELSE Message(msg)

\* ------------------------------------------------------------- convert_escpos
Code(p, n) == [pat |-> p, new |-> n]

\* escpos_codes of extract_string.py
escpos_codes ==
    << Code(<<27, 64>>, <<>>), Code(<<27, 33>>, <<>>), Code(<<27, 45>>, <<>>),
       Code(<<27, 69>>, <<>>), Code(<<27, 70>>, <<>>), Code(<<27, 77>>, <<>>),
       Code(<<27, 80>>, <<>>), Code(<<27, 33, 0>>, <<>>) >>

\* extract_string.convert_escpos
ConvertEscpos(f, ok) ==
    IF ~ok THEN Message("Error converting ESC/POS")
    ELSE Text(Strip(KeepPrintable(ReplaceAll(Latin1(f), escpos_codes))))

CUT_MARK == <<10, 45, 45, 45, 32, 67, 85, 84, 32, 45, 45, 45, 10>>  \* \n--- CUT ---\n

\* control_codes of utility/escpos_converter.py, in insertion order
control_codes ==
    << Code(<<10>>, <<10>>), Code(<<13>>, <<>>), Code(<<27, 100>>, <<10>>),
       Code(<<27, 33, 0>>, <<>>), Code(<<27, 33, 1>>, <<>>),
       Code(<<27, 33, 16>>, <<>>), Code(<<27, 33, 32>>, <<>>),
       Code(<<27, 97, 0>>, <<>>), Code(<<27, 97, 1>>, <<>>),
       Code(<<27, 97, 2>>, <<>>),
       Code(<<29, 86, 65, 0>>, CUT_MARK), Code(<<29, 86, 66, 0>>, CUT_MARK) >>

\* the loop over text of utility/escpos_converter.py: what one character
\* appends to cleaned
CleanedChar(c) ==
    IF c \in 32..126 \/ c \in {9, 10, 13} THEN <<c>>
    ELSE IF c > 127 THEN (IF c \in 160..255 THEN <<c>> ELSE <<63>>)
    ELSE <<>>

\* ''.join(cleaned) after the loop
Cleaned(text) == Flat([i \in 1..Len(text) |-> CleanedChar(text[i])], 1, Len(text))

\* utility/escpos_converter.convert_escpos
UtilConvertEscpos(bs) == Text(Cleaned(ReplaceAll(Latin1(bs), control_codes)))

CallConvertEscpos ==
    \E ok \in BOOLEAN : Returns("convert_escpos", <<ok>>, ConvertEscpos(file, ok))

CallUtilEscpos ==
    Returns("escpos_converter.convert_escpos", <<>>, UtilConvertEscpos(file))

\* ------------------------------------------------------------- convert_rawtext
Cont(s, i) == i <= Len(s) /\ s[i] \in 128..191

\* the length of the UTF-8 sequence that starts at s[i], 0 if there is none
Utf8Len(s, i) ==
    IF s[i] < 128 THEN 1
    ELSE IF s[i] \in 194..223 /\ Cont(s, i + 1) THEN 2
    ELSE IF s[i] \in 224..239 /\ Cont(s, i + 1) /\ Cont(s, i + 2)
            /\ (s[i] = 224 => s[i + 1] >= 160)
            /\ (s[i] = 237 => s[i + 1] <= 159) THEN 3
    ELSE IF s[i] \in 240..244 /\ Cont(s, i + 1) /\ Cont(s, i + 2) /\ Cont(s, i + 3)
            /\ (s[i] = 240 => s[i + 1] >= 144)
            /\ (s[i] = 244 => s[i + 1] <= 143) THEN 4
    ELSE 0

\* the code point of the n-byte sequence at s[i]
CodePoint(s, i, n) ==
    IF n = 1 THEN s[i]
    ELSE IF n = 2 THEN (s[i] - 192) * 64 + (s[i + 1] - 128)
    ELSE IF n = 3 THEN (s[i] - 224) * 4096 + (s[i + 1] - 128) * 64 + (s[i + 2] - 128)
    ELSE (s[i] - 240) * 262144 + (s[i + 1] - 128) * 4096
           + (s[i + 2] - 128) * 64 + (s[i + 3] - 128)

Decoded(cs) == [ok |-> TRUE, chars |-> cs]
DecodeError == [ok |-> FALSE, chars |-> <<>>]
DecodedCons(c, r) == IF r.ok THEN Decoded(<<c>> \o r.chars) ELSE DecodeError

\* strict UTF-8 decoding of s[i:]; n is the length of the sequence at s[i]
RECURSIVE Utf8From(_, _)
Utf8Next(s, i, n) ==
    IF n = 0 THEN DecodeError
    ELSE DecodedCons(CodePoint(s, i, n), Utf8From(s, i + n))

Utf8From(s, i) ==
    IF i > Len(s) THEN Decoded(<<>>) ELSE Utf8Next(s, i, Utf8Len(s, i))

\* bytes.decode('utf-8'); DecodeError is UnicodeDecodeError.  ASCII bytes
\* decode to themselves
Utf8(bs) ==
    IF \A i \in 1..Len(bs) : bs[i] < 128 THEN Decoded(bs) ELSE Utf8From(bs, 1)

\* text mode with newline=None: \r\n and \r are read as \n
UniversalNewlines(s) == Replace(Replace(s, <<13, 10>>, <<10>>), <<13>>, <<10>>)

\* except UnicodeDecodeError: read the file again with encoding='latin-1'
OrLatin1(u, bs) == IF u.ok THEN u.chars ELSE Latin1(bs)

\* open(path, 'r', encoding='utf-8').read() with that fallback
ReadText(bs) == UniversalNewlines(OrLatin1(Utf8(bs), bs))

\* extract_string.convert_rawtext
ConvertRawtext(f, ok) ==
    IF ~ok THEN Message("Error converting raw text")
    ELSE Text(Strip(KeepPrintable(ReadText(f))))

\* the line boundaries of str.splitlines()
IsLineBreak(c) == c \in (10..13) \cup (28..30) \cup {133, 8232, 8233}

\* s[pos:].splitlines(); i is where the next line boundary is
RECURSIVE SplitLinesFrom(_, _)
SplitLinesAt(s, pos, i) ==
    IF i = 0 THEN <<SubSeq(s, pos, Len(s))>>
    ELSE <<SubSeq(s, pos, i - 1)>>
           \o SplitLinesFrom(s, IF s[i] = 13 /\ i < Len(s) /\ s[i + 1] = 10
                                THEN i + 2 ELSE i + 1)

SplitLinesFrom(s, pos) ==
    IF pos > Len(s) THEN <<>>
    ELSE SplitLinesAt(s, pos, MinOr({i \in pos..Len(s) : IsLineBreak(s[i])}, 0))

SplitLines(s) == SplitLinesFrom(s, 1)

\* ''.join(char for char in line if 32 <= ord(char) <= 126 or char in '\t\n\r')
CleanLine(line) == SelectSeq(line, LAMBDA c : c \in 32..126 \/ c \in {9, 10, 13})

\* the for line in content.splitlines() loop: the lines that are kept
CleanedLines(lines) ==
    SelectSeq([i \in 1..Len(lines) |-> CleanLine(lines[i])],
              LAMBDA l : Strip(l) # <<>>)

\* utility/rawtext_converter.convert_rawtext
UtilConvertRawtext(f, ok) ==
    IF ~ok THEN Message("Error processing raw text data")
    ELSE JoinedOr(CleanedLines(SplitLines(ReadText(f))),
                  "No readable text content found.")

CallConvertRawtext ==
    \E ok \in BOOLEAN : Returns("convert_rawtext", <<ok>>, ConvertRawtext(file, ok))

CallUtilRawtext ==
    \E ok \in BOOLEAN :
        Returns("rawtext_converter.convert_rawtext", <<ok>>, UtilConvertRawtext(file, ok))

\* ------------------------------------------------------------- convert_postscript
\* \w of re, for a character below 256
IsWord(c) ==
    c \in (48..57) \cup (65..90) \cup {95} \cup (97..122) \cup {170, 178, 179, 181}
          \cup (185..186) \cup (188..190) \cup (192..214) \cup (216..246)
          \cup (248..255)

WordAt(s, i) == i \in 1..Len(s) /\ IsWord(s[i])

\* \b before s[i]
Boundary(s, i) == WordAt(s, i - 1) # WordAt(s, i)

Is(s, i, c) == i \in 1..Len(s) /\ s[i] = c

\* the first index from pos on that holds c, 0 if none
FirstChar(s, c, pos) == MinOr({i \in pos..Len(s) : s[i] = c}, 0)

\* where \s* stops when started at pos
SkipSpace(s, pos) == MinOr({i \in pos..Len(s) : ~IsSpace(s[i])}, Len(s) + 1)

\* a match of a pattern: where it starts and ends and what findall returns
NoMatch == [ok |-> FALSE, first |-> 0, last |-> 0, text |-> <<>>]
Matched(f, l, t) == [ok |-> TRUE, first |-> f, last |-> l, text |-> t]

\* \(([^)]+)\) at s[j]: the index of the closing parenthesis, 0 if no match
ParenTo(j, c) == IF c > j + 1 THEN c ELSE 0
Paren(s, j) == IF Is(s, j, 40) THEN ParenTo(j, FirstChar(s, 41, j + 1)) ELSE 0

\* T[FJ]
TextOp(s, i) == Is(s, i, 84) /\ (Is(s, i + 1, 70) \/ Is(s, i + 1, 74))

\* (?:T[FJ]|BT|ET)
BlockOp(s, i) ==
    \/ TextOp(s, i)
    \/ (Is(s, i, 66) \/ Is(s, i, 69)) /\ Is(s, i + 1, 84)

\* a match from s[i] to the \(([^)]+)\) at s[j] that closes at s[c], group 1
GroupTo(s, i, j, c) ==
    IF c # 0 THEN Matched(i, c, SubSeq(s, j + 1, c - 1)) ELSE NoMatch
Group(s, i, j) == GroupTo(s, i, j, Paren(s, j))

\* \bT[FJ]\s*\(([^)]+)\), group 1
Match1(s, i) ==
    IF Boundary(s, i) /\ TextOp(s, i) THEN Group(s, i, SkipSpace(s, i + 2))
    ELSE NoMatch

\* \)\s*T[FJ] with the \) at s[c] and the T at s[k], the whole match
OpAfter(s, i, c, k) ==
    IF c # 0 /\ TextOp(s, k) THEN Matched(i, k + 1, SubSeq(s, i, k + 1)) ELSE NoMatch
OpAfterParen(s, i, c) == OpAfter(s, i, c, SkipSpace(s, c + 1))

\* \b\([^)]+\)\s*T[FJ], the whole match
Match2(s, i) == IF Boundary(s, i) THEN OpAfterParen(s, i, Paren(s, i)) ELSE NoMatch

\* \b(?:T[FJ]|BT|ET)\b.*?\(([^)]+)\), group 1
Match3(s, i) ==
    IF Boundary(s, i) /\ BlockOp(s, i) /\ Boundary(s, i + 2)
    THEN Group(s, i, MinOr({j \in (i + 2)..Len(s) : Paren(s, j) # 0}, 0))
    ELSE NoMatch

\* \b(?:T[FJ]|BT|ET)\b[^()]*\(([^)]+)\), group 1
Match4(s, i) ==
    IF Boundary(s, i) /\ BlockOp(s, i) /\ Boundary(s, i + 2)
    THEN Group(s, i, MinOr({j \in (i + 2)..Len(s) : s[j] \in {40, 41}}, 0))
    ELSE NoMatch

\* \)\s+show\b with the \) at s[c] and the s at s[k], the whole match
ShowAfter(s, i, c, k) ==
    IF c # 0 /\ k > c + 1 /\ OccursAt(s, <<115, 104, 111, 119>>, k)
       /\ Boundary(s, k + 4)
    THEN Matched(i, k + 3, SubSeq(s, i, k + 3))
    ELSE NoMatch
ShowAfterParen(s, i, c) == ShowAfter(s, i, c, SkipSpace(s, c + 1))

\* \b\([^)]+\)\s+show\b, the whole match
Match5(s, i) == IF Boundary(s, i) THEN ShowAfterParen(s, i, Paren(s, i)) ELSE NoMatch

\* [^\\()]*(?:\\.[^\\()]*)*\) from s[j] on: the index of the closing
\* parenthesis, 0 if no match
RECURSIVE LiteralEnd(_, _)
LiteralEnd(s, j) ==
    IF j > Len(s) THEN 0
    ELSE IF s[j] = 41 THEN j
    ELSE IF s[j] = 40 THEN 0
    ELSE IF s[j] = 92 THEN (IF j + 1 > Len(s) THEN 0 ELSE LiteralEnd(s, j + 2))
    ELSE LiteralEnd(s, j + 1)

LiteralTo(s, i, c) == IF c # 0 THEN Matched(i, c, SubSeq(s, i, c)) ELSE NoMatch

\* \([^\\()]*(?:\\.[^\\()]*)*\), the whole match; also \((?:\\.|[^\\()])*\)
Match6(s, i) ==
    IF Is(s, i, 40) THEN LiteralTo(s, i, LiteralEnd(s, i + 1)) ELSE NoMatch

\* \bT[adf]?\s*[\(]([^)]+)[\)], group 1
Match7(s, i) ==
    IF Boundary(s, i) /\ Is(s, i, 84)
    THEN Group(s, i, SkipSpace(s, IF i + 1 <= Len(s) /\ s[i + 1] \in {97, 100, 102}
                                  THEN i + 2 ELSE i + 1))
    ELSE NoMatch

Match(p, s, i) ==
    CASE p = 1 -> Match1(s, i)
      [] p = 2 -> Match2(s, i)
      [] p = 3 -> Match3(s, i)
      [] p = 4 -> Match4(s, i)
      [] p = 5 -> Match5(s, i)
      [] p = 6 -> Match6(s, i)
      [] p = 7 -> Match7(s, i)

\* the leftmost of the matches H
Leftmost(H) ==
    IF \A m \in H : ~m.ok THEN NoMatch
    ELSE CHOOSE m \in H : m.ok /\ \A n \in H : n.ok => m.first <= n.first

\* re.findall(pattern p, s[pos:]): the matches from the left, each search
\* starting behind the match before
RECURSIVE FindAllFrom(_, _, _)
FindAllAfter(p, s, m) ==
    IF m.ok THEN <<m.text>> \o FindAllFrom(p, s, m.last + 1) ELSE <<>>

FindAllFrom(p, s, pos) ==
    FindAllAfter(p, s, Leftmost({Match(p, s, i) : i \in pos..Len(s)}))

FindAll(p, s) == FindAllFrom(p, s, 1)

\* re.sub(r'\\([()\\])', r'\1', s[pos:]); i is where the next match is
RECURSIVE UnescapeFrom(_, _)
UnescapeAt(s, pos, i) ==
    IF i = 0 THEN SubSeq(s, pos, Len(s))
    ELSE SubSeq(s, pos, i - 1) \o <<s[i + 1]>> \o UnescapeFrom(s, i + 2)

UnescapeFrom(s, pos) ==
    UnescapeAt(s, pos, MinOr({i \in pos..(Len(s) - 1) :
                                s[i] = 92 /\ s[i + 1] \in {40, 41, 92}}, 0))

Unescape(s) == UnescapeFrom(s, 1)

\* if len(text) > 3: all_text.append(text)
Meaningful(text) == IF Len(text) > 3 THEN <<text>> ELSE <<>>

\* the for char in content loop: what all_text gets from content[pos:] when
\* the loop is not in a text at pos; o and c are where the next text opens
\* and closes
RECURSIVE ScanFrom(_, _)
ScanClose(s, o, c) ==
    IF c = 0 THEN <<>>
    ELSE Meaningful(Strip(SubSeq(s, o + 1, c - 1))) \o ScanFrom(s, c + 1)

ScanOpen(s, o) == IF o = 0 THEN <<>> ELSE ScanClose(s, o, FirstChar(s, 41, o + 1))

ScanFrom(s, pos) == ScanOpen(s, FirstChar(s, 40, pos))

\* the for match in matches loop: what all_text gets from the matches ms
MatchTexts(ms) ==
    Flat([i \in 1..Len(ms) |->
            IF Len(Strip(ms[i])) > 3 THEN <<Unescape(Strip(ms[i]))>> ELSE <<>>],
         1, Len(ms))

\* the entries one pattern adds to all_text
PatternTexts(p, s) == MatchTexts(FindAll(p, s))

\* unique_text: the first occurrence of every entry
AddUnique(r, t) == IF \E i \in 1..Len(r) : r[i] = t THEN r ELSE Append(r, t)

RECURSIVE Unique(_)
Unique(ts) ==
    IF ts = <<>> THEN <<>>
    ELSE AddUnique(Unique(SubSeq(ts, 1, Len(ts) - 1)), ts[Len(ts)])

\* all_text after the loop and the six patterns
AllText(content) ==
    ScanFrom(content, 1) \o Flat([p \in 1..6 |-> PatternTexts(p, content)], 1, 6)

\* the entries that extract_string.convert_postscript joins
PostscriptEntries(f) == Unique(AllText(Latin1(f)))

\* extract_string.convert_postscript
ConvertPostscript(f, ok) ==
    IF ~ok THEN Message("Error converting PostScript")
    ELSE JoinedOr(PostscriptEntries(f), "No text content found in PostScript data.")

\* text[1:-1].replace('\\', '') of every piece, kept if text.strip()
CleanedPieces(pieces) ==
    SelectSeq([i \in 1..Len(pieces) |->
                 Replace(SubSeq(pieces[i], 2, Len(pieces[i]) - 1), <<92>>, <<>>)],
              LAMBDA t : Strip(t) # <<>>)

\* the entries that utility/postscript_converter.convert_postscript joins
UtilEntries(content) == CleanedPieces(FindAll(6, content)) \o FindAll(7, content)

UtilPostscriptEntries(f) == UtilEntries(Latin1(f))

\* utility/postscript_converter.convert_postscript
UtilConvertPostscript(f, ok) ==
    IF ~ok THEN Message("Error processing PostScript data")
    ELSE JoinedOr(UtilPostscriptEntries(f),
                  "No text content found in PostScript data.")

CallConvertPostscript ==
    \E ok \in BOOLEAN :
        Returns("convert_postscript", <<ok>>, ConvertPostscript(file, ok))

CallUtilPostscript ==
    \E ok \in BOOLEAN :
        Returns("postscript_converter.convert_postscript", <<ok>>,
                UtilConvertPostscript(file, ok))

\* ------------------------------------------------------------- process_file
ConvertersAllRawtext(tag) == "convert_rawtext"

\* converters.get(file_format, convert_rawtext)
Converters(tag) ==
    CASE tag = "escpos" -> "convert_escpos"
      [] tag = "postscript" -> "convert_postscript"
      [] OTHER -> "convert_rawtext"

\* converter(file_path)
Convert(name, f, ok) ==
    CASE name = "convert_escpos" -> ConvertEscpos(f, ok)
      [] name = "convert_postscript" -> ConvertPostscript(f, ok)
      [] name = "convert_rawtext" -> ConvertRawtext(f, ok)

\* file_format = detect_format(file_path)
ProcessDetect ==
    /\ xpc = "idle"
    /\ fn' = "process_file"
    /\ \E ok \in BOOLEAN :
         /\ fmt' = DetectFormat(file, ok)
         /\ reads' = Append(reads, ok)
    /\ calls' = Append(calls, "detect_format")
    /\ xpc' = "detected"
    /\ UNCHANGED <<file, ret>>
    /\ UNCHANGED <<cvars, pvars, watch>>

\* result = converter(file_path); return result.  The converters catch
\* every Exception themselves, so the except clause has nothing to catch
ProcessConvert ==
    /\ xpc = "detected"
    /\ fn = "process_file"
    /\ \E ok \in BOOLEAN :
         /\ ret' = Convert(Converters(fmt), file, ok)
         /\ reads' = Append(reads, ok)
    /\ calls' = Append(calls, Converters(fmt))
    /\ xpc' = "returned"
    /\ UNCHANGED <<file, fn, fmt>>
    /\ UNCHANGED <<cvars, pvars, watch>>

\* ------------------------------------------------------------- extraction system
ExtractInit ==
    /\ CaptureInit({"main"})
    /\ \E f \in Inputs : ExtractIdle(f)
    /\ FeedIdle
    /\ watch = FALSE

ExtractNext ==
    \/ CallDetectFormat
    \/ ProcessDetect
    \/ ProcessConvert
    \/ CallConvertEscpos
    \/ CallConvertPostscript
    \/ CallConvertRawtext
    \/ CallUtilEscpos
    \/ CallUtilPostscript
    \/ CallUtilRawtext

ExtractSpec == ExtractInit /\ [][ExtractNext]_vars

Returned(name) == fn = name /\ xpc = "returned"

\* ------------------------------------------------------------- C12
\* the reference rule, read off the whole file
RefPostscript(f) ==
    \E i \in 1..(HEADER_SIZE - 3) :
        i + 3 <= Len(f) /\ <<f[i], f[i + 1], f[i + 2], f[i + 3]>> = PS_MAGIC
RefEscpos(f) == \E i \in 1..HEADER_SIZE : i <= Len(f) /\ <<f[i]>> = ESC_BYTE
Reference(f) ==
    IF RefPostscript(f) THEN "postscript"
    ELSE IF RefEscpos(f) THEN "escpos"
    ELSE "rawtext"

Extractors == {"convert_escpos", "convert_postscript", "convert_rawtext"}

Count(log, x) == Cardinality({i \in 1..Len(log) : log[i] = x})

\* C13: process_file calls detect_format exactly once, then exactly one
\* extractor, the one that matches the returned tag, and returns what that
\* extractor returned for the file; when the extractor fails to read the
\* file, process_file still returns, with the extractor's message as text.
C13_OneClassifierOneExtractor ==
    fn = "process_file" =>
        /\ xpc \in {"detected", "returned"}
        /\ Count(calls, "detect_format") = 1
        /\ calls[1] = "detect_format"
        /\ fmt = DetectFormat(file, reads[1])
        /\ xpc = "detected" => Len(calls) = 1
        /\ xpc = "returned" =>
             /\ Len(calls) = 2
             /\ calls[2] \in Extractors
             /\ fmt = "escpos" => calls[2] = "convert_escpos"
             /\ fmt = "postscript" => calls[2] = "convert_postscript"
             /\ fmt = "rawtext" => calls[2] = "convert_rawtext"
             /\ ret = Convert(calls[2], file, reads[2])
             /\ ret.kind \in {"text", "message"}
             /\ ~reads[2] => ret.kind = "message"

\* a PostScript file was dispatched to convert_postscript, which could not
\* read it
C13_Witness ==
    /\ fn = "process_file"
    /\ xpc = "returned"
    /\ fmt = "postscript"
    /\ calls[2] = "convert_postscript"
    /\ reads = <<TRUE, FALSE>>
    /\ ret = Message("Error converting PostScript")

\* ------------------------------------------------------------- C14
\* no character of the file outlives the cleaning but white space: bytes
\* 0x21..0x7E decode to themselves, every other byte to a character that
\* the cleaning drops or to white space
NoLineSurvives(f) == \A i \in 1..Len(f) : f[i] \notin 33..126

RawtextExtractors == {"convert_rawtext", "rawtext_converter.convert_rawtext"}

\* C14 (as claimed): when no line survives the cleaning, the raw text
\* extractor returns the fixed "no readable text content" message, never the
\* empty string.
C14_NoSurvivorGivesMessage ==
    (fn \in RawtextExtractors /\ xpc = "returned" /\ reads = <<TRUE>>
       /\ NoLineSurvives(file)) =>
        ret = Message("No readable text content found.")

\* C14, utility/rawtext_converter.py alone
C14_UtilityGivesMessage ==
    (Returned("rawtext_converter.convert_rawtext") /\ reads = <<TRUE>>
       /\ NoLineSurvives(file)) =>
        ret = Message("No readable text content found.")

\* ------------------------------------------------------------- C15
EscposExtractors == {"convert_escpos", "escpos_converter.convert_escpos"}

OnlyPrintable(cs) == \A i \in 1..Len(cs) : cs[i] \in 32..126 \/ cs[i] \in {9, 10}

\* C15 (as claimed): the text the ESC/POS extractor returns holds only
\* 0x20..0x7E, newline and tab, and has no white space at either end.
C15_CleanTrimmedText ==
    (fn \in EscposExtractors /\ xpc = "returned" /\ ret.kind = "text") =>
        /\ OnlyPrintable(ret.chars)
        /\ Strip(ret.chars) = ret.chars

\* C15, scripts/extract_string.py alone
C15_ScriptCleanTrimmedText ==
    (Returned("convert_escpos") /\ ret.kind = "text") =>
        /\ OnlyPrintable(ret.chars)
        /\ Strip(ret.chars) = ret.chars

\* ------------------------------------------------------------- C16
PostscriptExtractors == {"convert_postscript", "postscript_converter.convert_postscript"}

\* the entries the called extractor joined
Entries ==
    IF fn = "convert_postscript" THEN PostscriptEntries(file)
    ELSE UtilPostscriptEntries(file)

\* e is what stands between an opening and a closing parenthesis of f, as
\* it stands, trimmed, or with its escapes resolved
ParenContent(f, e) ==
    \E i \in 1..Len(f) : \E j \in (i + 1)..Len(f) :
        /\ f[i] = 40
        /\ f[j] = 41
        /\ e \in { SubSeq(f, i + 1, j - 1),
                   Strip(SubSeq(f, i + 1, j - 1)),
                   Unescape(Strip(SubSeq(f, i + 1, j - 1))),
                   Replace(SubSeq(f, i + 1, j - 1), <<92>>, <<>>) }

\* C16 (as claimed): every entry of the PostScript extractor's output is the
\* content of a parenthesised substring of the file, without the
\* parentheses, and longer than 3; no entry appears twice.
C16_EntriesAreLongParenContents ==
    (fn \in PostscriptExtractors /\ xpc = "returned" /\ reads = <<TRUE>>) =>
        /\ ret = JoinedOr(Entries, "No text content found in PostScript data.")
        /\ \A k \in 1..Len(Entries) :
             /\ Len(Entries[k]) > 3
             /\ ParenContent(file, Entries[k])
        /\ \A k \in 1..Len(Entries) : \A l \in 1..Len(Entries) :
             k # l => Entries[k] # Entries[l]

\* ------------------------------------------------------------- C17
\* a step of the segmenter that hands the buffer over from the timeout site
TimeoutFlushStep ==
    /\ spc = "get"
    /\ \/ spc' = "saving" /\ saveCtx' = "timeout"
       \/ /\ Len(flushLog') > Len(flushLog)
          /\ Last(flushLog').cause = "timeout"

\* a step of the segmenter taken when data_queue.get raised queue.Empty
PollExpiredStep ==
    /\ spc = "get"
    /\ queue = <<>>
    /\ now >= pollStart + POLL_TIMEOUT
    /\ readLog' = readLog
    /\ rpc' = rpc
    /\ interrupted' = interrupted

SilenceWithinTimeout ==
    last_data_time = 0 \/ now - last_data_time <= JOB_COMPLETION_TIMEOUT

C17_FlushStep ==
    TimeoutFlushStep =>
        /\ buffer # <<>>
        /\ queue = <<>>
        /\ now >= pollStart + POLL_TIMEOUT
        /\ deqLog' = deqLog
        /\ last_data_time # 0
        /\ now - last_data_time > JOB_COMPLETION_TIMEOUT
        /\ Len(flushLog') = Len(flushLog) + 1
        /\ Last(flushLog').bytes = buffer

C17_QuietPollStep ==
    (PollExpiredStep /\ SilenceWithinTimeout) =>
        /\ buffer' = buffer
        /\ last_data_time' = last_data_time
        /\ flushLog' = flushLog
        /\ files' = files
        /\ spc' = "get"

C17_ReturnStep ==
    (spc = "saving" /\ saveCtx = "timeout" /\ spc' # "saving") =>
        /\ buffer' = <<>>
        /\ last_data_time' = 0
        /\ spc' = "get" \/ (spc' = "dead" /\ interrupted')

\* C17: in both loops the buffer is handed over from the timeout site only
\* when it is non-empty, at a poll that expired with the queue empty, and
\* with now - last_data_time strictly greater than the timeout; a poll that
\* expires with the silence equal to or below the timeout leaves the buffer
\* and last_data_time as they were and flushes nothing; and when the flush
\* returns the segmenter polls again with an empty buffer and last_data_time
\* cleared (the only other way out of the flush is a KeyboardInterrupt).
C17_TimeoutFlushOnlyWhenStrictlyOver ==
    /\ [][C17_FlushStep]_vars
    /\ [][C17_QuietPollStep]_vars
    /\ [][C17_ReturnStep]_vars

\* a timeout flush has returned, and the next Job has been silent for
\* exactly the timeout at a poll that has just expired without a flush
C17_Witness ==
    /\ Len(flushLog) = 1
    /\ flushLog[1].cause = "timeout"
    /\ flushLog[1].end # 0
    /\ spc = "get"
    /\ buffer # <<>>
    /\ now - last_data_time = JOB_COMPLETION_TIMEOUT
    /\ pollStart = now
    /\ queue = <<>>

\* ------------------------------------------------------------- C18
\* flush i stored its Job and the extraction run on the file then failed
FailedExtraction(i) == flushLog[i].extract = "failed"

C18_AfterFailure ==
    \A i \in 1..Len(flushLog) :
        FailedExtraction(i) =>
            /\ WriteOk(flushLog[i].bytes, flushLog[i].n)
            /\ spc = "dead" => interrupted
            /\ LastFlushIn(flushLog[i].sec) = i =>
                 /\ flushLog[i].sec \in DOMAIN files
                 /\ files[flushLog[i].sec] = flushLog[i].bytes

\* the running save_buffer returns to its call site
SaveReturns ==
    /\ spc = "saving"
    /\ spc' # "saving"
    /\ Len(flushLog') = Len(flushLog)
    /\ Last(flushLog').end # 0

C18_SaveStep ==
    (spc = "saving" /\ FailedExtraction(Len(flushLog))) =>
        /\ Len(flushLog') = Len(flushLog) => files' = files
        /\ spc' # "saving" => SaveReturns \/ interrupted'
        /\ SaveReturns =>
             IF saveCtx = "timeout"
             THEN spc' = "get" /\ buffer' = <<>> /\ last_data_time' = 0
             ELSE spc' = "done"

\* C18: in capture_prints.main a failed extraction (script missing, process
\* not launched, nonzero exit) follows a complete store, does not end the
\* loop, and leaves the stored file in place with the Job's bytes for as
\* long as no later flush writes the same file name; save_buffer returns as
\* after a successful extraction: to Idle with an empty buffer after a
\* timeout flush, out of the loop after the EndOfStream and interrupt
\* flushes, which end it in any case.
C18_ExtractionFailureAbsorbed ==
    /\ [](C18_AfterFailure)
    /\ [][C18_SaveStep]_vars

\* the extraction of the first Job failed, its file is as stored, and the
\* loop has dequeued and stored the next Job, whose extraction worked
C18_Witness ==
    /\ Len(flushLog) = 2
    /\ FailedExtraction(1)
    /\ flushLog[1].cause = "timeout"
    /\ flushLog[2].extract = "ok"
    /\ flushLog[2].cause = "timeout"
    /\ flushLog[2].bytes # flushLog[1].bytes
    /\ files[flushLog[1].sec] = flushLog[1].bytes
    /\ files[flushLog[2].sec] = flushLog[2].bytes
    /\ spc = "get"
    /\ ~interrupted

\* ------------------------------------------------------------- C19
\* the bytes the segmenter has taken off the queue
Dequeued == Concat(DataOf(SelectKind(ItemsOf(deqLog), "chunk")))

\* the bytes handed to save_buffer, call after call
Stored == Concat([i \in 1..Len(flushLog) |-> flushLog[i].bytes])

LoopLeft == spc \in {"done", "dead"}

\* C19 (as claimed): in capture_prints.main no buffer is handed to
\* save_buffer a second time, and once the loop has been left after a
\* KeyboardInterrupt, whenever it was delivered, every byte dequeued has
\* been handed to exactly one save_buffer call, and each call has run to
\* its return (store and extraction).
C19_InterruptStoresExactlyOnce ==
    impl = "main" =>
        /\ \A i \in 1..Len(flushLog) : ~flushLog[i].again
        /\ (interrupted /\ LoopLeft) =>
             /\ Stored = Dequeued
             /\ \A i \in 1..Len(flushLog) : flushLog[i].end # 0

\* the part that holds: a KeyboardInterrupt delivered while the loop waits
\* on the queue stores a non-empty buffer once
C19_InterruptWhilePollingStoresOnce ==
    (impl = "main" /\ interrupted /\ LoopLeft
        /\ flushLog # <<>> /\ Last(flushLog).cause = "interrupt"
        /\ ~Last(flushLog).again /\ Last(flushLog).end # 0) =>
            /\ Stored = Dequeued
            /\ \A i \in 1..Len(flushLog) : flushLog[i].end # 0 /\ ~flushLog[i].again

\* ------------------------------------------------------------- C20
\* the save_buffer calls that were handed the k-th chunk read
HandedIn(k) ==
    {i \in 1..Len(flushLog) :
        \E p \in 1..Len(flushLog[i].bytes) : flushLog[i].bytes[p] = Chunks[k].data[1]}

\* how many chunks the segmenter has dequeued
NumDequeued == Len(SelectKind(ItemsOf(deqLog), "chunk"))

\* chunks k and k + 1 are in the same Job
SameJob(k) == HandedIn(k) = HandedIn(k + 1)

\* what a segmenter whose flushes take no time does with chunks k and k + 1:
\* it dequeues each at its arrival, so it merges them when the gap between
\* the arrivals is at most the timeout and splits them when the gap is
\* above poll interval + timeout
SplitByArrival(k) ==
    /\ Gap(k) <= JOB_COMPLETION_TIMEOUT => SameJob(k)
    /\ Gap(k) > POLL_TIMEOUT + JOB_COMPLETION_TIMEOUT => ~SameJob(k)

\* C20 (as claimed): without an interrupt the Jobs are those of a segmenter
\* whose flushes take no time, whatever time the flushes took, and
\* last_data_time of an active Job is the arrival time at the reader of the
\* chunk dequeued last.
C20_BoundariesByArrivalOnly ==
    /\ ~interrupted => \A k \in 1..(NumDequeued - 1) : SplitByArrival(k)
    /\ JobWaiting => last_data_time = Last(deqLog).item.at

\* the part that holds with two chunks; with a third one the first
\* conjunct of C20 fails as well
C20_TwoChunkBoundaries ==
    (~interrupted /\ Len(Chunks) <= 2) =>
        \A k \in 1..(NumDequeued - 1) : SplitByArrival(k)

\* ------------------------------------------------------------- C21
\* the positions of EndOfStream in the queue
EosQueued == {i \in 1..Len(queue) : queue[i].kind = "eos"}

\* the reader has left its loop: by a zero-length read, by an error of a
\* read, or by an error of the open
ReaderEnded == readLog # <<>> /\ Last(readLog).kind \in {"eof", "error"}

\* C21: however reader_thread ends, it has put exactly one EndOfStream, as
\* the last item it ever puts, and it puts none before it ends; EndOfStream
\* is never ahead of another item in the queue; and when the segmenter has
\* dequeued it, the queue is empty and every chunk put has been dequeued.
C21_OneSentinelLast ==
    /\ Cardinality(EosPuts) <= 1
    /\ ReaderEnded <=> EosPuts # {}
    /\ ReaderEnded => rpc = "done" /\ EosPuts = {Len(putLog)}
    /\ rpc = "done" => ReaderEnded
    /\ EosQueued \subseteq {Len(queue)}
    /\ EosSeen =>
         /\ queue = <<>>
         /\ SelectKind(ItemsOf(deqLog), "chunk") = SelectKind(putLog, "chunk")
         /\ DataOf(SelectKind(putLog, "chunk")) = DataOf(Chunks)

\* the reader put two chunks and ended on a read error; the segmenter has
\* dequeued all three items and stopped
C21_Witness ==
    /\ Len(putLog) = 3
    /\ Last(readLog).kind = "error"
    /\ EosSeen
    /\ Len(deqLog) = 3
    /\ spc = "done"
    /\ ~interrupted

\* ------------------------------------------------------------- C22
\* fair scheduling of the segmenter thread: data_queue.get returns an item
\* that is queued, and a save_buffer that was entered returns
FairSpec ==
    /\ Spec
    /\ WF_vars(SegGetChunk)
    /\ WF_vars(SegGetEOS)
    /\ WF_vars(SaveEnd)

EosPut == EosPuts # {}

\* the segmenter loop has been left
Terminal == spc \in {"done", "dead"}

C22_AtTerminal ==
    (Terminal /\ ~interrupted) =>
        /\ EosSeen
        /\ queue = <<>>
        /\ Concat(Jobs) = DevRead

\* C22 (as claimed): in both loops, once EndOfStream has been put the
\* segmenter eventually leaves its loop; and a loop that was left without
\* an interrupt was left at EndOfStream, with an empty queue and with every
\* byte read handed to the Job Store.
C22_TerminatesWithAllHandedOver ==
    /\ EosPut ~> Terminal
    /\ [](C22_AtTerminal)

\* the part that holds: capture_prints.main does all of it
C22_MainTerminatesWithAllHandedOver ==
    /\ (impl = "main" /\ EosPut) ~> Terminal
    /\ [](impl = "main" => C22_AtTerminal)

\* ------------------------------------------------------------- the two loops
\* capture_prints.main as a function of its locals; every write succeeds
\* and save_buffer leaves the buffer as it is
MainSave(s) ==
    IF Truthy(s.buffer) THEN [s EXCEPT !.handed = Append(@, s.buffer)] ELSE s

\* buffer.extend(data); last_data_time = time.time()
MainChunk(s, data, t) ==
    [s EXCEPT !.buffer = Extend(@, data), !.last_data_time = t]

MainTimeout(s, t) ==
    /\ Truthy(s.buffer)
    /\ TimeSet(s.last_data_time)
    /\ t - s.last_data_time > JOB_COMPLETION_TIMEOUT

\* except queue.Empty
MainEmpty(s, t) ==
    IF MainTimeout(s, t)
    THEN [MainSave(s) EXCEPT !.buffer = <<>>, !.last_data_time = 0]
    ELSE s

\* if data is None: if buffer: save_buffer(buffer); break
MainEOS(s) ==
    [(IF Truthy(s.buffer) THEN MainSave(s) ELSE s) EXCEPT !.pc = "done"]

\* app.capture_prints_job as a function of its locals; its save_buffer
\* clears the buffer and resets last_data_time itself
AppSaveKeepBuffer(s) ==
    [(IF Truthy(s.buffer) THEN [s EXCEPT !.handed = Append(@, s.buffer)] ELSE s)
        EXCEPT !.last_data_time = 0]

AppSave(s) ==
    [(IF Truthy(s.buffer)
      THEN [s EXCEPT !.handed = Append(@, s.buffer), !.buffer = <<>>]
      ELSE s)
        EXCEPT !.last_data_time = 0]

AppChunk(s, data, t) ==
    [s EXCEPT !.buffer = Extend(@, data), !.last_data_time = t]

AppTimeout(s, t) ==
    /\ TimeSet(s.last_data_time)
    /\ t - s.last_data_time > JOB_COMPLETION_TIMEOUT

AppEmpty(s, t) == IF AppTimeout(s, t) THEN AppSave(s) ELSE s

AppEOS(s) ==
    [(IF Truthy(s.buffer) THEN AppSave(s) ELSE s) EXCEPT !.pc = "done"]

\* both loops are still in while True
Looping == mainSeg.pc = "loop" /\ appSeg.pc = "loop"

\* data_queue.get returns a chunk: the reader never puts an empty one
FeedChunk ==
    /\ Looping
    /\ feed.chunks < MaxChunks
    /\ mainSeg' = MainChunk(mainSeg, <<feed.chunks + 1>>, feed.clock)
    /\ appSeg' = AppChunk(appSeg, <<feed.chunks + 1>>, feed.clock)
    /\ feed' = [feed EXCEPT !.chunks = @ + 1, !.polled = feed.clock]
    /\ UNCHANGED <<cvars, xvars, watch>>

\* data_queue.get raises queue.Empty, POLL_TIMEOUT after it was called or
\* later
FeedEmpty ==
    /\ Looping
    /\ feed.clock >= feed.polled + POLL_TIMEOUT
    /\ mainSeg' = MainEmpty(mainSeg, feed.clock)
    /\ appSeg' = AppEmpty(appSeg, feed.clock)
    /\ feed' = [feed EXCEPT !.polled = feed.clock]
    /\ UNCHANGED <<cvars, xvars, watch>>

\* data_queue.get returns None
FeedEOS ==
    /\ Looping
    /\ mainSeg' = MainEOS(mainSeg)
    /\ appSeg' = AppEOS(appSeg)
    /\ feed' = [feed EXCEPT !.polled = feed.clock]
    /\ UNCHANGED <<cvars, xvars, watch>>

FeedTick ==
    /\ Looping
    /\ feed.clock < MaxTime
    /\ feed' = [feed EXCEPT !.clock = @ + 1]
    /\ UNCHANGED <<mainSeg, appSeg, cvars, xvars, watch>>

PairInit ==
    /\ CaptureInit({"main"})
    /\ ExtractIdle(<<>>)
    /\ FeedIdle
    /\ watch = FALSE

PairNext ==
    \/ FeedChunk
    \/ FeedEmpty
    \/ FeedEOS
    \/ FeedTick

PairSpec == PairInit /\ [][PairNext]_vars

\* ------------------------------------------------------------- C23
\* the state of the segmenter as the specification names it
SegState(s) ==
    IF s.pc = "done" THEN "Terminal"
    ELSE IF Truthy(s.buffer) THEN "Accumulating" ELSE "Idle"

\* C23: after every common sequence of dequeue events the two loops have
\* handed the same Jobs, with the same bytes and in the same order, to the
\* Job Store, are both Idle, both Accumulating or both Terminal, and while
\* they loop hold the same buffer and the same last_data_time.
C23_LoopsEquivalent ==
    /\ mainSeg.handed = appSeg.handed
    /\ SegState(mainSeg) = SegState(appSeg)
    /\ Looping =>
         /\ mainSeg.buffer = appSeg.buffer
         /\ mainSeg.last_data_time = appSeg.last_data_time

\* both loops handed one Job at a timeout and a second one at EndOfStream
C23_Witness ==
    /\ Len(mainSeg.handed) = 2
    /\ Len(appSeg.handed) = 2
    /\ mainSeg.handed[1] # mainSeg.handed[2]
    /\ SegState(mainSeg) = "Terminal"
    /\ SegState(appSeg) = "Terminal"

====
